---- MODULE Spec2Model ----
(***************************************************************************)
(* Model of src/analysis/portfolio_analysis.py: the analysis pipeline that *)
(* scans the results directory for optimal_portfolio_*.json files and the  *)
(* benchmark log, picks the portfolio with the highest Sharpe ratio and    *)
(* renders four charts.                                                    *)
(*                                                                         *)
(* The results directory is the environment: dir is the list of result     *)
(* files (a file's name is its index in dir), log is the benchmark log.    *)
(* A result file is a record; a field the JSON object lacks is a field the *)
(* record lacks, so dict.get and dict[...] are modelled by what they do.   *)
(* Weights are fixed-point numbers in thousandths (600 is 0.6), times are  *)
(* integers in milliseconds, means and the speedup are exact fractions.    *)
(* A Python exception is the terminal state pc = "raised" with exc naming  *)
(* the exception: nothing in the script catches one.                       *)
(***************************************************************************)
EXTENDS Integers, Sequences, FiniteSets, TLC

VARIABLES
    pc,              \* position of the run
    exc,             \* the exception that ended the run, "" if none
    dir,             \* the result files matching optimal_portfolio_*.json
    log,             \* benchmarks.log: NoFile, or its rows
    json_files,      \* find_best_portfolio: the listing glob returned
    idx,             \* find_best_portfolio: position of the for loop
    best_sharpe,     \* find_best_portfolio: running maximum
    best_portfolio,  \* find_best_portfolio: record of the running maximum
    best_file,       \* find_best_portfolio: its file, Unbound until assigned
    printed,         \* what line 38-39 printed: <<file, score>>, <<>> before
    portfolio_data,  \* main's best_portfolio, the argument of the plotter
    df,              \* plot_best_portfolio: the scaled, sorted frame
    labels,          \* plot_best_portfolio: bar positions given a text label
    top5,            \* plot_best_portfolio: the rows printed at lines 80-81
    exec_df,         \* analyze_execution_times: the filtered frame
    summary,         \* analyze_execution_times: the grouped statistics
    speedup,         \* analyze_execution_times: <<num, den>>, <<>> if none
    images,          \* image files written by savefig in this run
    console,         \* messages printed, in order
    trace            \* calls and returns of the stages of main, in order

vars == <<pc, exc, dir, log, json_files, idx, best_sharpe, best_portfolio,
          best_file, printed, portfolio_data, df, labels, top5, exec_df,
          summary, speedup, images, console, trace>>

----------------------------------------------------------------------------
(* Bounds of the model.                                                    *)

MaxFiles == 3        \* result files in the finder's specification
MaxStocks == 6       \* asset entries of a portfolio in the plotter's
MaxRows == 5         \* rows of the benchmark log in the analyzer's
MainMaxFiles == 2    \* result files in the pipeline's specification
MainMaxRows == 5     \* rows of the benchmark log in the pipeline's

----------------------------------------------------------------------------
(* Values.                                                                 *)

None == [type |-> "NoneType"]
Unbound == 0
\* The benchmark log: absent, or a file holding rows.
NoFile == [exists |-> FALSE, rows |-> <<>>]
LogFile(rows) == [exists |-> TRUE, rows |-> rows]

\* Sharpe ratios a result file may carry.
ScoreValues == {-1, 0, 1}

\* Weight fractions in thousandths: 0.045, 0.05, 0.6.
WeightValues == {45, 50, 600}

\* Execution times in milliseconds.
TimeValues == {1000, 2500}

ModeValues == {"parallel", "sequential", "other"}

Max(S) == CHOOSE x \in S : \A y \in S : y <= x
Min(S) == CHOOSE x \in S : \A y \in S : x <= y

SeqsUpTo(S, n) == UNION {[1..k -> S] : k \in 0..n}

\* The orders in which a listing can enumerate n files.
Listings(n) == {s \in [1..n -> 1..n] : \A a, b \in 1..n : s[a] = s[b] => a = b}

StockList(ws) == [k \in 1..Len(ws) |-> [Ticker |-> k, Weight |-> ws[k]]]

\* -float('inf'): below every Sharpe ratio.
NegInf == Min(ScoreValues) - 1

----------------------------------------------------------------------------
(* Helpers of the code.                                                    *)

\* dict.get(key, default)
Get(data, key, default) == IF key \in DOMAIN data THEN data[key] ELSE default

\* line 33: the loop's test
IsBetter_GreaterOrEqual(data, best) == Get(data, "SharpeRatio", 0) >= best
IsBetter_IgnoresBest(data, best) == Get(data, "SharpeRatio", 0) > 0
IsBetter(data, best) == Get(data, "SharpeRatio", 0) > best

Append2(s, a, b) == Append(Append(s, a), b)

----------------------------------------------------------------------------
(* find_best_portfolio, lines 24-41.                                       *)

\* line 26-29: the listing, in whatever order the file system gives it.
FindGlob ==
    /\ pc = "find_glob"
    /\ \E order \in Listings(Len(dir)) : json_files' = order
    /\ best_sharpe' = NegInf
    /\ best_portfolio' = None
    /\ best_file' = Unbound
    /\ idx' = 1
    /\ pc' = "find_loop"
    /\ UNCHANGED <<exc, dir, log, printed, portfolio_data, df, labels, top5,
                   exec_df, summary, speedup, images, console, trace>>

\* lines 31-36: one iteration of the loop.
FindStep ==
    /\ pc = "find_loop"
    /\ idx <= Len(json_files)
    /\ LET file == json_files[idx]
           data == dir[file]
       IN IF IsBetter(data, best_sharpe)
          THEN IF "SharpeRatio" \in DOMAIN data
               THEN /\ best_sharpe' = data["SharpeRatio"]
                    /\ best_portfolio' = data
                    /\ best_file' = file
                    /\ idx' = idx + 1
                    /\ UNCHANGED <<pc, exc>>
               ELSE \* line 34: data['SharpeRatio'] raises KeyError
                    /\ pc' = "raised"
                    /\ exc' = "KeyError"
                    /\ UNCHANGED <<best_sharpe, best_portfolio, best_file, idx>>
          ELSE /\ idx' = idx + 1
               /\ UNCHANGED <<pc, exc, best_sharpe, best_portfolio, best_file>>
    /\ UNCHANGED <<dir, log, json_files, printed, portfolio_data, df, labels,
                   top5, exec_df, summary, speedup, images, console, trace>>

\* lines 38-41: report and return.
FindReport ==
    /\ pc = "find_loop"
    /\ idx > Len(json_files)
    /\ IF best_file = Unbound
       THEN \* line 38: best_file was never assigned
            /\ pc' = "raised"
            /\ exc' = "UnboundLocalError"
            /\ UNCHANGED <<printed, portfolio_data, console, trace>>
       ELSE /\ printed' = <<best_file, best_sharpe>>
            /\ console' = Append2(console, "Best portfolio found in", "Sharpe Ratio")
            /\ portfolio_data' = best_portfolio
            /\ trace' = Append(trace, "return find_best_portfolio")
            /\ pc' = "main_201"
            /\ UNCHANGED exc
    /\ UNCHANGED <<dir, log, json_files, idx, best_sharpe, best_portfolio,
                   best_file, df, labels, top5, exec_df, summary, speedup,
                   images>>

----------------------------------------------------------------------------
(* plot_best_portfolio, lines 43-81.                                       *)

\* line 45: `not portfolio_data` holds of None and of an empty dict.
IsFalsy(data) == data = None \/ DOMAIN data = {}

\* line 56: weight fraction to percentage (both in thousandths).
ScaleWeight(w) == w * 100

\* lines 53-56: the frame with the Weight column scaled.
Scaled(stocks) ==
    [k \in 1..Len(stocks) |->
        [Ticker |-> stocks[k].Ticker, Weight |-> ScaleWeight(stocks[k].Weight)]]

\* line 57: sort_values('Weight', ascending=False). The sort is not stable, so
\* rows of equal weight may come out in any order: every descending order of
\* the rows whose indices are in S.
RECURSIVE SortValues_Ascending(_, _)
SortValues_Ascending(rows, S) ==
    IF S = {} THEN {<<>>}
    ELSE UNION {{<<rows[k]>> \o t : t \in SortValues_Ascending(rows, S \ {k})} :
                k \in {j \in S : \A m \in S : rows[j].Weight <= rows[m].Weight}}

RECURSIVE SortValues(_, _)
SortValues(rows, S) ==
    IF S = {} THEN {<<>>}
    ELSE UNION {{<<rows[k]>> \o t : t \in SortValues(rows, S \ {k})} :
                k \in {j \in S : \A m \in S : rows[m].Weight <= rows[j].Weight}}

\* line 65: the label threshold, in percent.
LabelMinPercent == 5

\* line 65: `v >= 5`, v in thousandths of a percent.
ShowLabel(v) == v >= LabelMinPercent * 1000

\* line 80: df.head(5)
TopN == 5

FrameHead(frame, n) == SubSeq(frame, 1, IF Len(frame) < n THEN Len(frame) ELSE n)

PlotBestPortfolio ==
    /\ pc = "plot"
    /\ IF IsFalsy(portfolio_data)
       THEN \* lines 45-47
            /\ console' = Append(console, "No portfolio data available")
            /\ trace' = Append(trace, "return plot_best_portfolio")
            /\ pc' = "main_204"
            /\ UNCHANGED <<exc, df, labels, top5, images>>
       ELSE IF portfolio_data["Stocks"] = <<>>
       THEN \* line 56: the frame of an empty list has no Weight column
            /\ pc' = "raised"
            /\ exc' = "KeyError"
            /\ UNCHANGED <<df, labels, top5, images, console, trace>>
       ELSE IF "SharpeRatio" \notin DOMAIN portfolio_data
       THEN \* line 68: the title reads portfolio_data["SharpeRatio"]; the frame
            \* and the labels are built by then, nothing is saved or printed
            /\ LET rows == Scaled(portfolio_data["Stocks"])
               IN df' \in SortValues(rows, DOMAIN rows)
            /\ labels' = {k \in 1..Len(df') : ShowLabel(df'[k].Weight)}
            /\ pc' = "raised"
            /\ exc' = "KeyError"
            /\ UNCHANGED <<top5, images, console, trace>>
       ELSE LET rows == Scaled(portfolio_data["Stocks"])
            IN /\ df' \in SortValues(rows, DOMAIN rows)
               /\ labels' = {k \in 1..Len(df') : ShowLabel(df'[k].Weight)}
               /\ images' = images \cup {"best_portfolio_weights.png"}
               /\ top5' = FrameHead(df', TopN)
               /\ console' = Append(console, "Top 5 stocks in optimal portfolio:")
               /\ trace' = Append(trace, "return plot_best_portfolio")
               /\ pc' = "main_204"
               /\ UNCHANGED exc
    /\ UNCHANGED <<dir, log, json_files, idx, best_sharpe, best_portfolio,
                   best_file, printed, portfolio_data, exec_df, summary, speedup>>

----------------------------------------------------------------------------
(* analyze_execution_times, lines 83-158.                                  *)

\* line 96: TimeMs / 1000, kept as the fraction <<numerator, denominator>>.
TimeSec(ms) == <<ms, 1000>>

\* lines 96-99: the rows whose mode is 'parallel' or 'sequential'.
RECURSIVE Qualifying_Unfiltered(_)
Qualifying_Unfiltered(rows) ==
    IF rows = <<>> THEN <<>>
    ELSE <<[ExecutionMode |-> Head(rows).ExecutionMode,
            TimeMs |-> Head(rows).TimeMs,
            TimeSec |-> TimeSec(Head(rows).TimeMs)]>>
         \o Qualifying_Unfiltered(Tail(rows))

RECURSIVE Qualifying(_)
Qualifying(rows) ==
    IF rows = <<>> THEN <<>>
    ELSE (IF Head(rows).ExecutionMode \in {"parallel", "sequential"}
          THEN <<[ExecutionMode |-> Head(rows).ExecutionMode,
                  TimeMs |-> Head(rows).TimeMs,
                  TimeSec |-> TimeSec(Head(rows).TimeMs)]>>
          ELSE <<>>)
         \o Qualifying(Tail(rows))

\* line 102: the least number of rows analysed.
MinDataPoints == 5

\* line 102: `len(df) < 5`
NotEnough_Fewer(frame) == Len(frame) < MinDataPoints - 1
NotEnough(frame) == Len(frame) < MinDataPoints

ModesOf(frame) == {frame[k].ExecutionMode : k \in 1..Len(frame)}

RECURSIVE SumMs(_, _)
SumMs(frame, m) ==
    IF frame = <<>> THEN 0
    ELSE (IF Head(frame).ExecutionMode = m THEN Head(frame).TimeMs ELSE 0)
         + SumMs(Tail(frame), m)

\* line 108: groupby('ExecutionMode')['TimeSec'].agg(count, mean, min, max);
\* the standard deviation, which nothing reads, is left out.
Summary(frame) ==
    [m \in ModesOf(frame) |->
        LET ks == {k \in 1..Len(frame) : frame[k].ExecutionMode = m}
        IN [count |-> Cardinality(ks),
            mean |-> <<SumMs(frame, m), 1000 * Cardinality(ks)>>,
            min |-> TimeSec(Min({frame[k].TimeMs : k \in ks})),
            max |-> TimeSec(Max({frame[k].TimeMs : k \in ks}))]]

\* line 120: sequential mean / parallel mean
Speedup(sm) ==
    <<sm["sequential"].mean[1] * sm["parallel"].mean[2],
      sm["sequential"].mean[2] * sm["parallel"].mean[1]>>

\* lines 86-121: read, filter, guard, summarise.
AnalyzeExecutionTimes ==
    /\ pc = "exec"
    /\ IF ~log.exists
       THEN \* lines 88-90
            /\ console' = Append(console, "Benchmark file not found")
            /\ trace' = Append(trace, "return analyze_execution_times")
            /\ pc' = "main_208"
            /\ UNCHANGED <<exc, exec_df, summary, speedup>>
       ELSE LET frame == Qualifying(log.rows)
            IN /\ exec_df' = frame
               /\ IF NotEnough(frame)
                  THEN \* lines 102-105
                       /\ console' = Append2(console, "Not enough data points",
                                             "Please run more benchmarks.")
                       /\ trace' = Append(trace, "return analyze_execution_times")
                       /\ pc' = "main_208"
                       /\ UNCHANGED <<exc, summary, speedup>>
                  ELSE LET sm == Summary(frame)
                           shown == Append2(console,
                                            "Execution Time Summary (seconds)",
                                            "Execution Time Summary (minutes)")
                       IN /\ summary' = sm
                          /\ IF "parallel" \notin DOMAIN sm
                             THEN \* line 115: summary.loc['parallel', 'mean']
                                  /\ console' = shown
                                  /\ pc' = "raised"
                                  /\ exc' = "KeyError"
                                  /\ UNCHANGED <<speedup, trace>>
                             ELSE IF "sequential" \notin DOMAIN sm
                             THEN \* line 116: summary.loc['sequential', 'mean']
                                  /\ console' = Append(shown, "Parallel")
                                  /\ pc' = "raised"
                                  /\ exc' = "KeyError"
                                  /\ UNCHANGED <<speedup, trace>>
                             ELSE /\ IF "sequential" \in DOMAIN sm
                                        /\ "parallel" \in DOMAIN sm
                                     THEN /\ speedup' = Speedup(sm)
                                          /\ console' =
                                               Append(Append2(shown, "Parallel",
                                                              "Sequential"),
                                                      "Parallel speedup")
                                     ELSE /\ speedup' = speedup
                                          /\ console' = Append2(shown, "Parallel",
                                                                "Sequential")
                                  /\ pc' = "exec_boxplot"
                                  /\ UNCHANGED <<exc, trace>>
    /\ UNCHANGED <<dir, log, json_files, idx, best_sharpe, best_portfolio,
                   best_file, printed, portfolio_data, df, labels, top5, images>>

\* lines 123-137: the box plot.
ExecBoxplot ==
    /\ pc = "exec_boxplot"
    /\ images' = images \cup {"execution_time_comparison.png"}
    /\ pc' = "exec_barplot"
    /\ UNCHANGED <<exc, dir, log, json_files, idx, best_sharpe, best_portfolio,
                   best_file, printed, portfolio_data, df, labels, top5,
                   exec_df, summary, speedup, console, trace>>

\* lines 139-158: the bar chart.
ExecBarplot ==
    /\ pc = "exec_barplot"
    /\ images' = images \cup {"avg_execution_time.png"}
    /\ trace' = Append(trace, "return analyze_execution_times")
    /\ pc' = "main_208"
    /\ UNCHANGED <<exc, dir, log, json_files, idx, best_sharpe, best_portfolio,
                   best_file, printed, portfolio_data, df, labels, top5,
                   exec_df, summary, speedup, console>>

----------------------------------------------------------------------------
(* analyze_portfolio_variations, lines 160-193.                            *)

\* lines 164-172: one row per listed file, missing fields defaulted.
VariationRows(order) ==
    [k \in 1..Len(order) |->
        [ExecutionMode |-> Get(dir[order[k]], "ExecutionMode", "unknown"),
         SharpeRatio |-> Get(dir[order[k]], "SharpeRatio", 0),
         TimeMs |-> Get(dir[order[k]], "TimeElapsedMs", 0),
         Timestamp |-> Get(dir[order[k]], "Timestamp", "")]]

AnalyzePortfolioVariations ==
    /\ pc = "variations"
    /\ \E order \in Listings(Len(dir)) :
         LET data == VariationRows(order)
         IN IF data = <<>>
            THEN \* lines 174-176
                 /\ console' = Append(console, "No portfolio data found")
                 /\ UNCHANGED images
            ELSE /\ images' = images \cup {"sharpe_ratio_comparison.png"}
                 /\ console' = Append(console, "Sharpe Ratio Statistics:")
    /\ trace' = Append(trace, "return analyze_portfolio_variations")
    /\ pc' = "main_211"
    /\ UNCHANGED <<exc, dir, log, json_files, idx, best_sharpe, best_portfolio,
                   best_file, printed, portfolio_data, df, labels, top5,
                   exec_df, summary, speedup>>

----------------------------------------------------------------------------
(* main, lines 195-211.                                                    *)

\* The stage main calls from each of its positions, and where it goes on.
MainCall_SkipsAnalyzer(at) ==
    CASE at = "main_196" -> <<"find_best_portfolio", "find_glob">>
      [] at = "main_201" -> <<"plot_best_portfolio", "plot">>
      [] at = "main_204" -> <<"analyze_portfolio_variations", "variations">>
      [] at = "main_208" -> <<"analyze_portfolio_variations", "variations">>
MainCall(at) ==
    CASE at = "main_196" -> <<"find_best_portfolio", "find_glob">>
      [] at = "main_201" -> <<"plot_best_portfolio", "plot">>
      [] at = "main_204" -> <<"analyze_execution_times", "exec">>
      [] at = "main_208" -> <<"analyze_portfolio_variations", "variations">>

MainLocals == <<exc, dir, log, json_files, idx, best_sharpe, best_portfolio,
                best_file, printed, portfolio_data, df, labels, top5, exec_df,
                summary, speedup, images>>

\* lines 196-200
MainFind ==
    /\ pc = "main_196"
    /\ console' = Append2(console, "Portfolio Optimization Analysis",
                          "==============================")
    /\ trace' = Append(trace, "call " \o MainCall(pc)[1])
    /\ pc' = MainCall(pc)[2]
    /\ UNCHANGED MainLocals

\* line 201
MainPlot ==
    /\ pc = "main_201"
    /\ trace' = Append(trace, "call " \o MainCall(pc)[1])
    /\ pc' = MainCall(pc)[2]
    /\ UNCHANGED <<MainLocals, console>>

\* lines 204-205
MainExecutionTimes ==
    /\ pc = "main_204"
    /\ console' = Append(console, "Analyzing execution times...")
    /\ trace' = Append(trace, "call " \o MainCall(pc)[1])
    /\ pc' = MainCall(pc)[2]
    /\ UNCHANGED MainLocals

\* lines 208-209
MainVariations ==
    /\ pc = "main_208"
    /\ console' = Append(console, "Analyzing portfolio variations...")
    /\ trace' = Append(trace, "call " \o MainCall(pc)[1])
    /\ pc' = MainCall(pc)[2]
    /\ UNCHANGED MainLocals

\* line 211
MainComplete ==
    /\ pc = "main_211"
    /\ console' = Append(console, "Analysis complete. Plots saved to")
    /\ pc' = "done"
    /\ UNCHANGED <<exc, dir, log, json_files, idx, best_sharpe, best_portfolio,
                   best_file, printed, portfolio_data, df, labels, top5,
                   exec_df, summary, speedup, images, trace>>

----------------------------------------------------------------------------
(* Specification of the finder alone: every directory of at most MaxFiles  *)
(* result files, each with or without a Sharpe ratio.                      *)

FinderRecords ==
    {[SharpeRatio |-> s, Stocks |-> StockList(<<600>>)] : s \in ScoreValues}
    \cup {[Stocks |-> StockList(<<600>>)]}

Locals ==
    /\ exc = ""
    /\ json_files = <<>>
    /\ idx = 0
    /\ best_sharpe = NegInf
    /\ best_portfolio = None
    /\ best_file = Unbound
    /\ printed = <<>>
    /\ df = <<>>
    /\ labels = {}
    /\ top5 = <<>>
    /\ exec_df = <<>>
    /\ summary = <<>>
    /\ speedup = <<>>
    /\ images = {}
    /\ console = <<>>

InitFinder ==
    /\ pc = "find_glob"
    /\ dir \in SeqsUpTo(FinderRecords, MaxFiles)
    /\ log = NoFile
    /\ portfolio_data = None
    /\ trace = <<"call find_best_portfolio">>
    /\ Locals

NextFinder == FindGlob \/ FindStep \/ FindReport

SpecFinder == InitFinder /\ [][NextFinder]_vars

----------------------------------------------------------------------------
(* Specification of the composition plotter alone: no record, or a record  *)
(* with at most MaxStocks asset entries of any of the weights, with or     *)
(* without a Sharpe ratio.                                                 *)

PlotRecords ==
    {[SharpeRatio |-> 1, Stocks |-> StockList(ws)] :
        ws \in SeqsUpTo(WeightValues, MaxStocks)}
    \cup {[Stocks |-> StockList(ws)] : ws \in SeqsUpTo(WeightValues, MaxStocks)}

InitPlot ==
    /\ pc = "plot"
    /\ dir = <<>>
    /\ log = NoFile
    /\ portfolio_data \in {None} \cup PlotRecords
    /\ trace = <<"call plot_best_portfolio">>
    /\ Locals

NextPlot == PlotBestPortfolio

SpecPlot == InitPlot /\ [][NextPlot]_vars

----------------------------------------------------------------------------
(* Specification of the benchmark analyzer alone: no log, or a log of at   *)
(* most MaxRows rows of any mode and time.                                 *)

LogRows == [ExecutionMode : ModeValues, TimeMs : TimeValues]

InitExec ==
    /\ pc = "exec"
    /\ dir = <<>>
    /\ log \in {NoFile} \cup {LogFile(rows) : rows \in SeqsUpTo(LogRows, MaxRows)}
    /\ portfolio_data = None
    /\ trace = <<"call analyze_execution_times">>
    /\ Locals

NextExec == AnalyzeExecutionTimes \/ ExecBoxplot \/ ExecBarplot

SpecExec == InitExec /\ [][NextExec]_vars

----------------------------------------------------------------------------
(* Specification of the whole run of main.  The finder, the plotter and    *)
(* the analyzer are explored over all their inputs in the specifications   *)
(* above; here the directory holds at most MainMaxFiles files, with a       *)
(* Sharpe ratio of 0 or 1 or none and with or without asset entries, and   *)
(* the log holds at most MainMaxRows rows, grouped by mode.                *)

MainRecords ==
    {[SharpeRatio |-> s, Stocks |-> st] :
        s \in {0, 1}, st \in {<<>>, StockList(<<600, 250, 150>>)}}
    \cup {[Stocks |-> st] : st \in {<<>>, StockList(<<600, 250, 150>>)}}

Repeat(row, n) == [k \in 1..n |-> row]

MainLogs ==
    {Repeat([ExecutionMode |-> "parallel", TimeMs |-> 1000], a)
       \o Repeat([ExecutionMode |-> "sequential", TimeMs |-> 2500], b)
       \o Repeat([ExecutionMode |-> "other", TimeMs |-> 1000], c) :
     a \in 0..MainMaxRows, b \in 0..MainMaxRows, c \in 0..MainMaxRows}

Init ==
    /\ pc = "main_196"
    /\ dir \in SeqsUpTo(MainRecords, MainMaxFiles)
    /\ log \in {NoFile} \cup {LogFile(rows) : rows \in {l \in MainLogs : Len(l) <= MainMaxRows}}
    /\ portfolio_data = None
    /\ trace = <<>>
    /\ Locals

Next ==
    \/ MainFind
    \/ FindGlob
    \/ FindStep
    \/ FindReport
    \/ MainPlot
    \/ PlotBestPortfolio
    \/ MainExecutionTimes
    \/ AnalyzeExecutionTimes
    \/ ExecBoxplot
    \/ ExecBarplot
    \/ MainVariations
    \/ AnalyzePortfolioVariations
    \/ MainComplete

Spec == Init /\ [][Next]_vars

----------------------------------------------------------------------------
(* Properties.                                                             *)

Called(f) == \E k \in 1..Len(trace) : trace[k] = "call " \o f
Returned(f) == \E k \in 1..Len(trace) : trace[k] = "return " \o f
Said(msg) == \E k \in 1..Len(console) : console[k] = msg

\* What the environment holds, read off dir and log alone.
AllCarrySharpe == \A k \in 1..Len(dir) : "SharpeRatio" \in DOMAIN dir[k]
AllCarryStocks == \A k \in 1..Len(dir) : dir[k]["Stocks"] # <<>>
QualifyingCount ==
    Cardinality({k \in 1..Len(log.rows) :
                    log.rows[k].ExecutionMode \in {"parallel", "sequential"}})
LogModes == {log.rows[k].ExecutionMode : k \in 1..Len(log.rows)}
EffectiveScore(k) ==
    IF "SharpeRatio" \in DOMAIN dir[k] THEN dir[k]["SharpeRatio"] ELSE 0

\* C1: with no matching result file the finder returns None without raising,
\* and the plotter then prints only the "no data" message and writes no image.
C1_NoFilesReturnNone ==
    dir = <<>> =>
        /\ pc # "raised"
        /\ Returned("find_best_portfolio") => portfolio_data = None
        /\ Returned("plot_best_portfolio") =>
              /\ images = {}
              /\ Said("No portfolio data available")
              /\ ~Said("Top 5 stocks in optimal portfolio:")

\* C2: for a non-empty directory whose files all carry a Sharpe ratio the
\* finder does not raise, returns a record of the directory whose ratio is at
\* least every file's, and reports that record's ratio.
C2_FinderReturnsMaximum ==
    (dir # <<>> /\ AllCarrySharpe) =>
        /\ pc # "raised"
        /\ Returned("find_best_portfolio") =>
              /\ best_file \in 1..Len(dir)
              /\ portfolio_data = dir[best_file]
              /\ \A k \in 1..Len(dir) :
                    dir[k]["SharpeRatio"] <= portfolio_data["SharpeRatio"]
              /\ printed = <<best_file, portfolio_data["SharpeRatio"]>>

C2_Witness ==
    /\ Returned("find_best_portfolio")
    /\ Len(dir) = 3
    /\ AllCarrySharpe
    /\ {dir[k]["SharpeRatio"] : k \in 1..3} = {-1, 0, 1}
    /\ json_files[2] = best_file
    /\ portfolio_data["SharpeRatio"] = 1

C2_WitnessNegative ==
    /\ Returned("find_best_portfolio")
    /\ Len(dir) = 2
    /\ AllCarrySharpe
    /\ portfolio_data["SharpeRatio"] = -1

\* C3: a file without the Sharpe ratio counts as 0: the scan of any mix of
\* files completes without raising, and the winner's effective score is the
\* largest effective score.
C3_MissingFieldScoresZero ==
    dir # <<>> =>
        /\ pc # "raised"
        /\ Returned("find_best_portfolio") =>
              \A k \in 1..Len(dir) :
                  EffectiveScore(k) <= EffectiveScore(best_file)

\* C4: a missing input (no result file, no benchmark log, fewer than 5
\* qualifying rows) never aborts the run, the inputs that are present being
\* well formed: main does not raise, and ends with the completion message.
C4_MissingInputsNeverAbort ==
    (/\ AllCarrySharpe
     /\ AllCarryStocks
     /\ dir = <<>> \/ ~log.exists \/ QualifyingCount < 5) =>
        /\ pc # "raised"
        /\ pc = "done" =>
              console[Len(console)] = "Analysis complete. Plots saved to"

\* C5: when the log exists and fewer than 5 rows of mode 'parallel' or
\* 'sequential' remain, counted together, the analyzer prints the
\* insufficient-data message and returns, with no statistics computed and
\* neither execution-time image written.
C5_InsufficientRows ==
    (log.exists /\ QualifyingCount < 5 /\ pc # "exec") =>
        /\ pc = "main_208"
        /\ Returned("analyze_execution_times")
        /\ console = <<"Not enough data points", "Please run more benchmarks.">>
        /\ DOMAIN summary = {}
        /\ speedup = <<>>
        /\ images = {}

C5_Witness ==
    /\ log.exists
    /\ Len(log.rows) = 5
    /\ QualifyingCount = 4
    /\ LogModes = {"parallel", "sequential", "other"}
    /\ Returned("analyze_execution_times")

\* C6: with at least 5 qualifying rows the analyzer returns normally with both
\* execution-time images saved, whether one or both modes are present, and
\* derives the speedup exactly when both are.
C6_BothChartsSaved ==
    (log.exists /\ QualifyingCount >= 5) =>
        /\ pc # "raised"
        /\ Returned("analyze_execution_times") =>
              /\ {"execution_time_comparison.png", "avg_execution_time.png"}
                    \subseteq images
              /\ speedup # <<>> <=> {"parallel", "sequential"} \subseteq LogModes

\* C7: the stages of main are called in the order finder, plotter, benchmark
\* analyzer, variation analyzer, each after the one before has returned and
\* none twice, and the completion message is printed last, after all four.
StageOrder ==
    <<"call find_best_portfolio", "return find_best_portfolio",
      "call plot_best_portfolio", "return plot_best_portfolio",
      "call analyze_execution_times", "return analyze_execution_times",
      "call analyze_portfolio_variations", "return analyze_portfolio_variations">>

C7_StagesInOrder ==
    /\ Len(trace) <= Len(StageOrder)
    /\ trace = SubSeq(StageOrder, 1, Len(trace))
    /\ Said("Analysis complete. Plots saved to") =>
          /\ trace = StageOrder
          /\ console[Len(console)] = "Analysis complete. Plots saved to"
          /\ \A k \in 1..(Len(console) - 1) :
                console[k] # "Analysis complete. Plots saved to"

C7_Witness ==
    /\ pc = "done"
    /\ Said("Analysis complete. Plots saved to")
    /\ Cardinality(images) = 4

\* C8: a run writes no file but the four images, each only when its stage's
\* guard passed: the composition chart only when the finder returned a record,
\* the execution-time charts only when the log exists with at least 5
\* qualifying rows, the Sharpe box plot only when a result file matched; the
\* result files and the log are never changed.
C8_ImagesGuarded ==
    /\ images \subseteq {"best_portfolio_weights.png",
                         "execution_time_comparison.png",
                         "avg_execution_time.png",
                         "sharpe_ratio_comparison.png"}
    /\ "best_portfolio_weights.png" \in images =>
          Returned("find_best_portfolio") /\ portfolio_data # None
    /\ "execution_time_comparison.png" \in images =>
          log.exists /\ QualifyingCount >= 5
    /\ "avg_execution_time.png" \in images =>
          log.exists /\ QualifyingCount >= 5
    /\ "sharpe_ratio_comparison.png" \in images => dir # <<>>

C8_OnlyGuardedImages ==
    []C8_ImagesGuarded /\ [][dir' = dir /\ log' = log]_vars

C8_Witness ==
    /\ pc = "done"
    /\ images = {"best_portfolio_weights.png", "sharpe_ratio_comparison.png"}
    /\ log.exists
    /\ QualifyingCount = 4

\* C9: for a portfolio record (one that carries its Sharpe ratio) with a
\* non-empty asset list the plotter's frame is a permutation of the entries
\* with each weight multiplied by 100, in descending order of percentage; the
\* summary lists the first min(5, n) rows of it, and a bar is labelled
\* exactly when its percentage is >= 5.
C9_SortedPercentages ==
    (/\ portfolio_data # None
     /\ "SharpeRatio" \in DOMAIN portfolio_data
     /\ portfolio_data["Stocks"] # <<>>
     /\ pc # "plot") =>
        LET stocks == portfolio_data["Stocks"]
            n == Len(stocks)
        IN /\ Returned("plot_best_portfolio")
           /\ Len(df) = n
           /\ \A t \in 1..n :
                 Cardinality({k \in 1..n :
                     /\ df[k].Ticker = stocks[t].Ticker
                     /\ df[k].Weight = 100 * stocks[t].Weight}) = 1
           /\ \A a, b \in 1..n : a < b => df[a].Weight >= df[b].Weight
           /\ top5 = [k \in 1..(IF n < 5 THEN n ELSE 5) |-> df[k]]
           /\ labels = {k \in 1..n : df[k].Weight >= 5000}

C9_Witness ==
    /\ Returned("plot_best_portfolio")
    /\ Len(df) = 6
    /\ Len(top5) = 5
    /\ {df[k].Weight : k \in 1..6} = {4500, 5000, 60000}
    /\ df[2].Ticker < df[1].Ticker
    /\ df[1].Weight = df[2].Weight
    /\ labels = 1..5

\* C10: when several files share the maximum the finder returns the one that
\* comes first in the listing; so when the maximum is unique the file returned
\* is the same whatever the listing order.
C10_FirstSeenMaximum ==
    Returned("find_best_portfolio") =>
        LET top == Max({EffectiveScore(k) : k \in 1..Len(dir)})
            holders == {k \in 1..Len(dir) : EffectiveScore(k) = top}
            first == Min({p \in 1..Len(json_files) : json_files[p] \in holders})
        IN /\ best_file = json_files[first]
           /\ Cardinality(holders) = 1 => best_file = CHOOSE k \in holders : TRUE

C10_Witness ==
    /\ Returned("find_best_portfolio")
    /\ Len(dir) = 3
    /\ EffectiveScore(1) = 1
    /\ EffectiveScore(2) = 0
    /\ EffectiveScore(3) = 1
    /\ json_files = <<2, 3, 1>>
    /\ best_file = 3

====
